---- MODULE Spec2Model ----
(***************************************************************************)
(* A model of the linked stack of src/src/DynStack.c (declarations in      *)
(* src/unnamed/part_000, the header DynStack.h).                           *)
(*                                                                         *)
(* The heap of DynFrame nodes is modelled explicitly: every node lives at  *)
(* an address, carries a data pointer and a next pointer, and is created   *)
(* by malloc and reclaimed by free.  One DynStack object exists at a time. *)
(* Every public function is one action that models the whole call; the     *)
(* call's operands, its return value and the calls it makes to malloc,     *)
(* free, the deleteData/printData function pointers and the visitor are    *)
(* recorded in the variables op, arg, ret and log.                         *)
(***************************************************************************)
EXTENDS Integers, Sequences, FiniteSets, TLC

(***************************************************************************)
(* Bounds of the model.                                                    *)
(***************************************************************************)
\* Number of DynFrame addresses the heap can hand out: the deepest chain.
MaxDepth == 3
\* Number of pushes counted since dynstackNew by the counters kPush, jPop.
MaxCount == 4
\* Modulus of the counter DynStack.size (unsigned int), scaled down from
\* UINT_MAX + 1.  It stays above MaxDepth, so the counter does not wrap in
\* the chains this model builds.
UIntMod == 16
\* Width in bits of the counter in the specification SpecWrap, scaled down
\* so that the chains of the model reach the counter's largest value.
WrapBits == 1

\* The null pointer.
NULL == 0
\* The address of the one DynStack object.
STK == 1

\* Addresses malloc can return for a DynFrame.
Addr == 1..MaxDepth
\* The data pointers a caller pushes; a caller may push the null pointer.
Data == {NULL, 1, 2}
\* The functions a caller can supply as deleteFunc.
DeleteFuncs == {1, 2}
\* The functions a caller can supply as printFunc.
PrintFuncs == {1, 2}
\* The functions a caller can supply as the visitor of dynstackMap.
MapFuncs == {1}

(***************************************************************************)
(* C strings are sequences of one-character strings.                       *)
(***************************************************************************)
NL == <<"\n">>

strlen(s) == Len(s)

strcat(dst, src) == dst \o src

\* The caller's printFunc applied to a data pointer.  printFunc 1 writes the pointer as one digit; printFunc 2 is a renderer
\* whose texts differ in length, the empty text among them.
callPrintData(f, e) ==
    IF f = 1
    THEN IF e = NULL THEN <<"0">> ELSE IF e = 1 THEN <<"1">> ELSE <<"2">>
    ELSE IF e = NULL THEN <<>> ELSE IF e = 1 THEN <<"a">> ELSE <<"b", "c">>

(***************************************************************************)
(* Values returned by the calls, tagged with their C type.                 *)
(***************************************************************************)
RetVoid == <<"void">>
RetNone == <<"none">>
RetStack(p) == <<"DynStack*", p>>
RetBool(b) == <<"bool", b>>
RetData(e) == <<"void*", e>>
RetUInt(n) == <<"unsigned", n>>
RetStr(s) == <<"char*", s>>
RetNullStr == <<"NULL char*">>
RetUndefined == <<"undefined">>

(***************************************************************************)
(* Events of a call, in the order the call makes them.                     *)
(***************************************************************************)
Ev(name, f, v) == [ev |-> name, fn |-> f, val |-> v]
EvMallocStack(p) == Ev("malloc", 0, <<"DynStack", p>>)
EvFreeStack(p) == Ev("free", 0, <<"DynStack", p>>)
EvMallocFrame(a) == Ev("malloc", 0, <<"DynFrame", a>>)
EvFreeFrame(a) == Ev("free", 0, <<"DynFrame", a>>)
EvDelete(f, e) == Ev("deleteData", f, <<"data", e>>)
EvPrint(f, e) == Ev("printData", f, <<"data", e>>)
EvFuncData(f, e) == Ev("func", f, <<"data", e>>)
EvFuncFrame(f, a) == Ev("func", f, <<"DynFrame", a>>)

VARIABLES
    alive,        \* TRUE while the DynStack object is allocated
    top,          \* DynStack.top
    size,         \* DynStack.size
    deleteData,   \* DynStack.deleteData
    printData,    \* DynStack.printData
    frames,       \* the allocated DynFrame nodes: address -> [data, next]
    crashed,      \* TRUE once a call has run into undefined behaviour
    umod,         \* UINT_MAX + 1 of the build: the modulus of DynStack.size
    op,           \* the last call
    arg,          \* its operands
    ret,          \* its return value
    log,          \* the events it made
    pre,          \* the program state when the last call began
    peeked,       \* after a pop that follows a peek: <<s, value>> of the peek
    pushed,       \* data of the current run of successful pushes
    bases,        \* bases[i]: the stack before the i-th push of the run
    popped,       \* data returned by the pops that followed the run
    kPush,        \* successful pushes since dynstackNew
    jPop,         \* pops of a non-empty stack since dynstackNew
    counting,     \* TRUE while only pushes and pops were counted since New
    wrapped,      \* TRUE once a push took the size from UINT_MAX to 0 since New
    owned,        \* data pointer -> how many pushed instances have not left
    ownBad        \* TRUE once a pointer left the stack that it did not hold

prog == <<alive, top, size, deleteData, printData, frames, crashed, umod>>
call == <<op, arg, ret, log, pre, peeked>>
hist == <<pushed, bases, popped, kPush, jPop, counting, wrapped, owned, ownBad>>
vars == <<prog, call, hist>>


(***************************************************************************)
(* The program state as one record, and the result of a call: the state it *)
(* leaves, the value it returns, the events it made, and whether it ran    *)
(* into undefined behaviour (ub) or never returns (hang).                  *)
(***************************************************************************)
P == [alive |-> alive, top |-> top, size |-> size, deleteData |-> deleteData,
      printData |-> printData, frames |-> frames]

NoFrames == [a \in {} |-> NULL]

NoStack == [alive |-> FALSE, top |-> NULL, size |-> 0, deleteData |-> NULL,
            printData |-> NULL, frames |-> NoFrames]

Res(st, r, lg) == [st |-> st, ret |-> r, log |-> lg, ub |-> FALSE, hang |-> FALSE]

Undefined(st, lg) == [st |-> st, ret |-> RetUndefined, log |-> lg, ub |-> TRUE, hang |-> FALSE]

Hang(st, lg) == [st |-> st, ret |-> RetNone, log |-> lg, ub |-> FALSE, hang |-> TRUE]

\* Inc with the increment left out.
IncNone(n) == n

\* Dec with the decrement left out.
DecNone(n) == n

\* Inc that stays at the largest value instead of wrapping around.
IncSat(n) == IF n = umod - 1 THEN n ELSE n + 1

\* Dec that takes two from the counter.
DecTwice(n) == (n + umod - 2) % umod

\* (stack->size)++ and (stack->size)-- on an unsigned int.
Inc(n) == (n + 1) % umod

Dec(n) == (n + umod - 1) % umod

\* free(frame): the node leaves the heap.
FreeFrame(fr, a) == [x \in (DOMAIN fr) \ {a} |-> fr[x]]

\* What malloc may return for a new DynFrame: NULL when it fails (as it
\* must once every address is taken), else a free address.  The functions
\* never compare or order addresses, so every choice of a free address is a
\* renaming of the choice of the lowest one, which is the one modelled.
MallocFrame(fr) ==
    {NULL} \cup {a \in Addr \ DOMAIN fr : \A b \in Addr \ DOMAIN fr : a <= b}

\* The nodes reachable from t by next, top first; at most n of them.
RECURSIVE ChainN(_, _, _)
ChainN(fr, t, n) ==
    IF t = NULL \/ n = 0 \/ t \notin DOMAIN fr
    THEN <<>>
    ELSE <<t>> \o ChainN(fr, fr[t].next, n - 1)

Chain(st) == ChainN(st.frames, st.top, MaxDepth + 1)

\* The data pointers of the chain, top first.
Contents(st) == [i \in 1..Len(Chain(st)) |-> st.frames[Chain(st)[i]].data]

(***************************************************************************)
(* The functions of DynStack.c.  s is the DynStack pointer the caller      *)
(* passes: NULL or STK.                                                    *)
(***************************************************************************)
\* dynstackNew testing only deleteFunc for NULL.
dynstackNewOneTest(st, deleteFunc, printFunc, m) ==
    IF deleteFunc = NULL
    THEN Res(st, RetStack(NULL), <<>>)
    ELSE IF m = NULL
    THEN Res(st, RetStack(NULL), <<EvMallocStack(NULL)>>)
    ELSE Res([st EXCEPT !.alive = TRUE, !.top = NULL, !.size = 0,
                        !.deleteData = deleteFunc, !.printData = printFunc],
             RetStack(m), <<EvMallocStack(m)>>)

\* m: what malloc returns, NULL or STK.
dynstackNew(st, deleteFunc, printFunc, m) ==
    IF deleteFunc = NULL \/ printFunc = NULL
    THEN Res(st, RetStack(NULL), <<>>)
    ELSE IF m = NULL
    THEN Res(st, RetStack(NULL), <<EvMallocStack(NULL)>>)
    ELSE Res([st EXCEPT !.alive = TRUE, !.top = NULL, !.size = 0,
                        !.deleteData = deleteFunc, !.printData = printFunc],
             RetStack(m), <<EvMallocStack(m)>>)

\* m: what malloc returns, NULL or a free address.
dynstackFrameNew(data, m) ==
    IF m = NULL
    THEN [ptr |-> NULL, frame |-> [data |-> NULL, next |-> NULL]]
    ELSE [ptr |-> m, frame |-> [data |-> data, next |-> NULL]]

dynstackGetSize(st, s) == IF s = NULL THEN 0 ELSE st.size

dynstackIsEmpty(st, s) == dynstackGetSize(st, s) = 0

\* dynstackPush counting the element before it has tested the allocation.
dynstackPushCountsFirst(st, s, data, m) ==
    IF s = NULL
    THEN Res(st, RetBool(FALSE), <<>>)
    ELSE LET toPush == dynstackFrameNew(data, m)
         IN  IF toPush.ptr = NULL
             THEN Res([st EXCEPT !.size = Inc(@)], RetBool(FALSE), <<EvMallocFrame(NULL)>>)
             ELSE Res([st EXCEPT
                         !.frames = (toPush.ptr :> [toPush.frame EXCEPT !.next = st.top]) @@ @,
                         !.top = toPush.ptr,
                         !.size = Inc(@)],
                      RetBool(TRUE), <<EvMallocFrame(toPush.ptr)>>)

dynstackPush(st, s, data, m) ==
    IF s = NULL
    THEN Res(st, RetBool(FALSE), <<>>)
    ELSE LET toPush == dynstackFrameNew(data, m)
         IN  IF toPush.ptr = NULL
             THEN Res(st, RetBool(FALSE), <<EvMallocFrame(NULL)>>)
             ELSE Res([st EXCEPT
                         !.frames = (toPush.ptr :> [toPush.frame EXCEPT !.next = st.top]) @@ @,
                         !.top = toPush.ptr,
                         !.size = Inc(@)],
                      RetBool(TRUE), <<EvMallocFrame(toPush.ptr)>>)

\* dynstackPeek reading the node below the top.
dynstackPeekBelow(st, s) ==
    IF s = NULL \/ st.top = NULL \/ st.frames[st.top].next = NULL
    THEN NULL
    ELSE st.frames[st.frames[st.top].next].data

dynstackPeek(st, s) ==
    IF s = NULL \/ st.top = NULL
    THEN NULL
    ELSE st.frames[st.top].data

\* dynstackPop reading the data after it has moved the stack pointer.
dynstackPopAfterMove(st, s) ==
    IF s = NULL \/ st.top = NULL
    THEN Res(st, RetData(NULL), <<>>)
    ELSE LET t == st.top
             newTop == st.frames[t].next
             toReturn == IF newTop = NULL THEN NULL ELSE st.frames[newTop].data
         IN  Res([st EXCEPT !.top = newTop,
                            !.size = Dec(@),
                            !.frames = FreeFrame(@, t)],
                 RetData(toReturn), <<EvFreeFrame(t)>>)

\* dynstackPop counting down before it tests for an empty stack.
dynstackPopCountsFirst(st, s) ==
    IF s = NULL
    THEN Res(st, RetData(NULL), <<>>)
    ELSE IF st.top = NULL
    THEN Res([st EXCEPT !.size = Dec(@)], RetData(NULL), <<>>)
    ELSE LET t == st.top
             toReturn == st.frames[t].data
         IN  Res([st EXCEPT !.top = st.frames[t].next,
                            !.size = Dec(@),
                            !.frames = FreeFrame(@, t)],
                 RetData(toReturn), <<EvFreeFrame(t)>>)

\* dynstackPop that also hands the data it returns to the releaser.
dynstackPopReleases(st, s) ==
    IF s = NULL \/ st.top = NULL
    THEN Res(st, RetData(NULL), <<>>)
    ELSE LET t == st.top
             toReturn == st.frames[t].data
         IN  Res([st EXCEPT !.top = st.frames[t].next,
                            !.size = Dec(@),
                            !.frames = FreeFrame(@, t)],
                 RetData(toReturn),
                 <<EvDelete(st.deleteData, toReturn), EvFreeFrame(t)>>)

dynstackPop(st, s) ==
    IF s = NULL \/ st.top = NULL
    THEN Res(st, RetData(NULL), <<>>)
    ELSE LET t == st.top
             toReturn == st.frames[t].data
         IN  Res([st EXCEPT !.top = st.frames[t].next,
                            !.size = Dec(@),
                            !.frames = FreeFrame(@, t)],
                 RetData(toReturn), <<EvFreeFrame(t)>>)

\* while (!dynstackIsEmpty(stack)) stack->deleteData(dynstackPop(stack));
\* with the size not 0 and no top the loop would never end.
RECURSIVE ClearLoop(_, _, _)
ClearLoop(st, s, lg) ==
    IF dynstackIsEmpty(st, s)
    THEN Res(st, RetVoid, lg)
    ELSE IF st.top = NULL
    THEN Hang(st, lg \o <<EvDelete(st.deleteData, NULL)>>)
    ELSE LET R == dynstackPop(st, s)
         IN  ClearLoop(R.st, s, lg \o R.log \o <<EvDelete(st.deleteData, R.ret[2])>>)

\* dynstackClear with an if in the place of the while.
dynstackClearOnce(st, s) ==
    IF s = NULL \/ dynstackIsEmpty(st, s) \/ st.top = NULL
    THEN Res(st, RetVoid, <<>>)
    ELSE LET R == dynstackPop(st, s)
         IN  Res(R.st, RetVoid, R.log \o <<EvDelete(st.deleteData, R.ret[2])>>)

dynstackClear(st, s) ==
    IF s = NULL
    THEN Res(st, RetVoid, <<>>)
    ELSE ClearLoop(st, s, <<>>)

\* dynstackFree without the call of dynstackClear.
dynstackFreeNoClear(st, s) ==
    IF s = NULL
    THEN Res(st, RetVoid, <<>>)
    ELSE Res([NoStack EXCEPT !.frames = st.frames], RetVoid, <<EvFreeStack(s)>>)

dynstackFree(st, s) ==
    IF s = NULL
    THEN Res(st, RetVoid, <<>>)
    ELSE LET R == dynstackClear(st, s)
         IN  IF R.hang
             THEN R
             ELSE Res([NoStack EXCEPT !.frames = R.st.frames],
                      RetVoid, R.log \o <<EvFreeStack(s)>>)


(***************************************************************************)
(* Rendering.  mallocOk tells whether the malloc of dynstackTopToString    *)
(* succeeds; failAt is the number of the realloc of dynstackToString that  *)
(* fails (0: none does).                                                   *)
(***************************************************************************)
EvMallocStr(ok) == Ev("malloc", 0, <<"char", IF ok THEN 1 ELSE NULL>>)
EvReallocStr(ok) == Ev("realloc", 0, <<"char", IF ok THEN 1 ELSE NULL>>)
EvFreeStr == Ev("free", 0, <<"char", 1>>)
EvPrintf(text) == Ev("printf", 0, <<"stdout", text>>)

\* dynstackTopToString returning NULL for an empty stack.
dynstackTopToStringNullIfEmpty(st, s, mallocOk) ==
    IF s = NULL \/ dynstackIsEmpty(st, s) \/ st.top = NULL
    THEN Res(st, RetNullStr, <<>>)
    ELSE Res(st, RetStr(callPrintData(st.printData, st.frames[st.top].data)),
             <<EvPrint(st.printData, st.frames[st.top].data)>>)

dynstackTopToString(st, s, mallocOk) ==
    IF s = NULL
    THEN Res(st, RetNullStr, <<>>)
    ELSE IF dynstackIsEmpty(st, s)
    THEN IF mallocOk
         THEN Res(st, RetStr(<<>>), <<EvMallocStr(TRUE)>>)
         ELSE Undefined(st, <<EvMallocStr(FALSE)>>)
    ELSE IF st.top = NULL
    THEN Undefined(st, <<>>)
    ELSE Res(st, RetStr(callPrintData(st.printData, st.frames[st.top].data)),
             <<EvPrint(st.printData, st.frames[st.top].data)>>)

\* The loop of dynstackToString from the node cur on; k is the number of
\* the next realloc.
RECURSIVE ToStringLoop(_, _, _, _, _, _, _)
ToStringLoop(st, cur, toReturn, length, k, failAt, lg) ==
    IF cur = NULL
    THEN Res(st, RetStr(toReturn), lg)
    ELSE LET frameStr == callPrintData(st.printData, st.frames[cur].data)
             newLength == length + strlen(frameStr) + 1
             lg1 == lg \o <<EvPrint(st.printData, st.frames[cur].data)>>
         IN  IF k = failAt
             THEN Undefined(st, lg1 \o <<EvReallocStr(FALSE)>>)
             ELSE ToStringLoop(st, st.frames[cur].next,
                               strcat(strcat(toReturn, NL), frameStr),
                               newLength, k + 1, failAt,
                               lg1 \o <<EvReallocStr(TRUE)>>)

\* dynstackToString starting its loop at the top instead of below it.
dynstackToStringFromTop(st, s, mallocOk, failAt) ==
    IF s = NULL
    THEN Res(st, RetNullStr, <<>>)
    ELSE LET T == dynstackTopToString(st, s, mallocOk)
         IN  IF T.ub
             THEN T
             ELSE ToStringLoop(st,
                               IF dynstackIsEmpty(st, s) THEN NULL ELSE st.top,
                               T.ret[2], strlen(T.ret[2]), 1, failAt, T.log)

dynstackToString(st, s, mallocOk, failAt) ==
    IF s = NULL
    THEN Res(st, RetNullStr, <<>>)
    ELSE LET T == dynstackTopToString(st, s, mallocOk)
         IN  IF T.ub
             THEN T
             ELSE ToStringLoop(st,
                               IF dynstackIsEmpty(st, s) THEN NULL
                               ELSE st.frames[st.top].next,
                               T.ret[2], strlen(T.ret[2]), 1, failAt, T.log)

\* dynstackPrintTop without its own test of stack == NULL.
dynstackPrintTopNoGuard(st, s, mallocOk) ==
    LET T == dynstackTopToString(st, s, mallocOk)
    IN  IF T.ub
        THEN T
        ELSE Res(st, RetVoid,
                 T.log \o <<EvPrintf((IF T.ret = RetNullStr
                                      THEN <<"(", "n", "u", "l", "l", ")">>
                                      ELSE T.ret[2]) \o NL),
                            EvFreeStr>>)

dynstackPrintTop(st, s, mallocOk) ==
    IF s = NULL
    THEN Res(st, RetVoid, <<>>)
    ELSE LET T == dynstackTopToString(st, s, mallocOk)
         IN  IF T.ub
             THEN T
             ELSE Res(st, RetVoid,
                      T.log \o <<EvPrintf(T.ret[2] \o NL), EvFreeStr>>)

dynstackPrint(st, s, mallocOk, failAt) ==
    IF s = NULL
    THEN Res(st, RetVoid, <<>>)
    ELSE LET T == dynstackToString(st, s, mallocOk, failAt)
         IN  IF T.ub
             THEN T
             ELSE Res(st, RetVoid,
                      T.log \o <<EvPrintf(T.ret[2] \o NL), EvFreeStr>>)

\* The loop of dynstackMap from the node cur on: func(cur->data).
RECURSIVE MapLoop(_, _, _, _)
MapLoop(st, cur, func, lg) ==
    IF cur = NULL
    THEN Res(st, RetVoid, lg)
    ELSE MapLoop(st, st.frames[cur].next, func,
                 lg \o <<EvFuncData(func, st.frames[cur].data)>>)

\* dynstackMap that walks the chain with stack->top as its cursor.
dynstackMapConsumes(st, s, func) ==
    IF s = NULL \/ dynstackIsEmpty(st, s)
    THEN Res(st, RetVoid, <<>>)
    ELSE Res([st EXCEPT !.top = NULL], RetVoid, MapLoop(st, st.top, func, <<>>).log)

dynstackMap(st, s, func) ==
    IF s = NULL \/ dynstackIsEmpty(st, s)
    THEN Res(st, RetVoid, <<>>)
    ELSE MapLoop(st, st.top, func, <<>>)


(***************************************************************************)
(* History of the calls, kept for the properties below.                    *)
(***************************************************************************)
\* A run of successful pushes, then the pops that follow it immediately.
RunStep(name, a, R) ==
    IF name = "dynstackPush" /\ R.ret = RetBool(TRUE)
    THEN /\ pushed' = IF popped = <<>> THEN Append(pushed, a[2]) ELSE <<a[2]>>
         /\ bases' = IF popped = <<>> THEN Append(bases, P) ELSE <<P>>
         /\ popped' = <<>>
    ELSE IF name = "dynstackPop" /\ a[1] = STK /\ Len(popped) < Len(pushed)
    THEN /\ popped' = Append(popped, R.ret[2])
         /\ UNCHANGED <<pushed, bases>>
    ELSE /\ pushed' = <<>>
         /\ bases' = <<>>
         /\ popped' = <<>>

\* k successful pushes and j pops of a non-empty stack since dynstackNew.
CountStep(name, a, R) ==
    IF name = "dynstackNew" /\ R.ret # RetStack(NULL)
    THEN kPush' = 0 /\ jPop' = 0 /\ counting' = TRUE
    ELSE IF name = "dynstackPush" /\ R.ret = RetBool(TRUE) /\ counting /\ kPush < MaxCount
    THEN kPush' = kPush + 1 /\ UNCHANGED <<jPop, counting>>
    ELSE IF name = "dynstackPop" /\ R.log # <<>> /\ counting
    THEN jPop' = jPop + 1 /\ UNCHANGED <<kPush, counting>>
    ELSE IF name = "dynstackFree" /\ a[1] = STK /\ counting
    THEN counting' = FALSE /\ UNCHANGED <<kPush, jPop>>
    ELSE IF \/ name = "dynstackPush" /\ R.ret = RetBool(TRUE)
            \/ name \in {"dynstackClear", "dynstackFree"} /\ a[1] = STK
    THEN kPush' = 0 /\ jPop' = 0 /\ counting' = FALSE
    ELSE UNCHANGED <<kPush, jPop, counting>>

\* The counter has gone from its largest value to 0 in a push since New.
WrapStep(name, a, R) ==
    IF name = "dynstackNew" /\ R.ret # RetStack(NULL)
    THEN wrapped' = FALSE
    ELSE IF name = "dynstackPush" /\ R.ret = RetBool(TRUE) /\ size = umod - 1
    THEN wrapped' = TRUE
    ELSE UNCHANGED wrapped

NoneOwned == [e \in Data |-> 0]

\* One instance of the pointer e leaves the holdings h = [bag, bad].
Leave(h, e) ==
    IF h.bag[e] = 0
    THEN [h EXCEPT !.bad = TRUE]
    ELSE [h EXCEPT !.bag[e] = @ - 1]

\* The pointers passed to the releaser in the events evs leave h.
RECURSIVE LeaveReleased(_, _)
LeaveReleased(h, evs) ==
    IF evs = <<>>
    THEN h
    ELSE LeaveReleased(IF Head(evs).ev = "deleteData"
                       THEN Leave(h, Head(evs).val[2]) ELSE h,
                       Tail(evs))

\* Ownership of the pushed pointers: a successful push hands one instance
\* to the stack, a pop that removed a node hands the returned pointer back,
\* and every call of the releaser ends one instance.
OwnStep(name, a, R) ==
    LET h0 == IF name = "dynstackNew" /\ R.ret # RetStack(NULL)
              THEN [bag |-> NoneOwned, bad |-> FALSE]
              ELSE [bag |-> owned, bad |-> ownBad]
        h1 == IF name = "dynstackPush" /\ R.ret = RetBool(TRUE)
              THEN [h0 EXCEPT !.bag[a[2]] = @ + 1]
              ELSE IF name = "dynstackPop" /\ \E i \in 1..Len(R.log) : R.log[i].ev = "free"
              THEN Leave(h0, R.ret[2])
              ELSE h0
        h2 == LeaveReleased(h1, R.log)
    IN  owned' = h2.bag /\ ownBad' = h2.bad

\* Undefined behaviour either ends the process or lets the call return an
\* indeterminate value; a call that never returns ends the model's run too.
Outcome(R) ==
    IF R.hang
    THEN crashed' = TRUE /\ ret' = RetNone
    ELSE IF R.ub
    THEN \E crash \in BOOLEAN :
            /\ crashed' = crash
            /\ ret' = IF crash THEN RetNone ELSE RetUndefined
    ELSE crashed' = FALSE /\ ret' = R.ret

\* The call name(a) with result R.
Do(name, a, R) ==
    /\ ~crashed
    /\ Outcome(R)
    /\ alive' = R.st.alive
    /\ top' = R.st.top
    /\ size' = R.st.size
    /\ deleteData' = R.st.deleteData
    /\ printData' = R.st.printData
    /\ frames' = R.st.frames
    /\ op' = name
    /\ arg' = a
    /\ log' = R.log
    /\ pre' = P
    /\ peeked' = IF name = "dynstackPop" /\ op = "dynstackPeek"
                 THEN <<arg[1], ret[2]>> ELSE <<>>
    /\ RunStep(name, a, R)
    /\ CountStep(name, a, R)
    /\ WrapStep(name, a, R)
    /\ OwnStep(name, a, R)
    /\ UNCHANGED umod

\* The DynStack pointers a caller can pass: NULL, or the stack while it
\* is allocated.
Ptrs == {NULL} \cup (IF alive THEN {STK} ELSE {})

(***************************************************************************)
(* The calls.                                                              *)
(***************************************************************************)
\* The program before its first call, but for the width of unsigned int.
InitCalls ==
    /\ alive = FALSE /\ top = NULL /\ size = 0
    /\ deleteData = NULL /\ printData = NULL
    /\ frames = NoFrames
    /\ crashed = FALSE
    /\ op = "none" /\ arg = <<>> /\ ret = RetNone /\ log = <<>>
    /\ pre = NoStack
    /\ peeked = <<>>
    /\ pushed = <<>> /\ bases = <<>> /\ popped = <<>>
    /\ kPush = 0 /\ jPop = 0 /\ counting = FALSE
    /\ wrapped = FALSE
    /\ owned = NoneOwned /\ ownBad = FALSE

\* A build whose unsigned int is wider than any chain of the model is long.
Init == umod = UIntMod /\ InitCalls

\* A build in which the chains reach the largest value of unsigned int.
InitWrap == umod = 2 ^ WrapBits /\ InitCalls

CallNew ==
    /\ ~alive
    /\ \E d \in DeleteFuncs \cup {NULL}, p \in PrintFuncs \cup {NULL} :
          \E m \in IF d = NULL \/ p = NULL THEN {NULL} ELSE {NULL, STK} :
              Do("dynstackNew", <<d, p>>, dynstackNew(P, d, p, m))

CallClear == \E s \in Ptrs : Do("dynstackClear", <<s>>, dynstackClear(P, s))

CallFree == \E s \in Ptrs : Do("dynstackFree", <<s>>, dynstackFree(P, s))

CallPush ==
    \E s \in Ptrs, data \in Data :
        \E m \in IF s = NULL THEN {NULL} ELSE MallocFrame(frames) :
            Do("dynstackPush", <<s, data>>, dynstackPush(P, s, data, m))

CallPeek == \E s \in Ptrs : Do("dynstackPeek", <<s>>, Res(P, RetData(dynstackPeek(P, s)), <<>>))

CallPop == \E s \in Ptrs : Do("dynstackPop", <<s>>, dynstackPop(P, s))

CallGetSize == \E s \in Ptrs : Do("dynstackGetSize", <<s>>, Res(P, RetUInt(dynstackGetSize(P, s)), <<>>))

CallIsEmpty == \E s \in Ptrs : Do("dynstackIsEmpty", <<s>>, Res(P, RetBool(dynstackIsEmpty(P, s)), <<>>))

\* The outcomes of the malloc of dynstackTopToString, which is called only
\* for an empty stack.
MallocOutcomes(s) == IF s # NULL /\ dynstackIsEmpty(P, s) THEN BOOLEAN ELSE {TRUE}

\* The realloc of dynstackToString that fails: none (0), or one of those it
\* calls, one for each node below the top.
ReallocOutcomes(s) ==
    IF s # NULL /\ ~dynstackIsEmpty(P, s) THEN 0..(Len(Chain(P)) - 1) ELSE {0}

CallTopToString ==
    \E s \in Ptrs :
        \E mallocOk \in MallocOutcomes(s) :
            Do("dynstackTopToString", <<s>>, dynstackTopToString(P, s, mallocOk))

CallPrintTop ==
    \E s \in Ptrs :
        \E mallocOk \in MallocOutcomes(s) :
            Do("dynstackPrintTop", <<s>>, dynstackPrintTop(P, s, mallocOk))

CallToString ==
    \E s \in Ptrs :
        \E mallocOk \in MallocOutcomes(s), failAt \in ReallocOutcomes(s) :
            Do("dynstackToString", <<s>>, dynstackToString(P, s, mallocOk, failAt))

CallPrint ==
    \E s \in Ptrs :
        \E mallocOk \in MallocOutcomes(s), failAt \in ReallocOutcomes(s) :
            Do("dynstackPrint", <<s>>, dynstackPrint(P, s, mallocOk, failAt))

CallMap == \E s \in Ptrs, func \in MapFuncs : Do("dynstackMap", <<s, func>>, dynstackMap(P, s, func))

Next ==
    \/ CallNew
    \/ CallClear
    \/ CallFree
    \/ CallPush
    \/ CallPeek
    \/ CallPop
    \/ CallGetSize
    \/ CallIsEmpty
    \/ CallTopToString
    \/ CallPrintTop
    \/ CallToString
    \/ CallPrint
    \/ CallMap

Spec == Init /\ [][Next]_vars

SpecWrap == InitWrap /\ [][Next]_vars

TypeOK ==
    /\ alive \in BOOLEAN
    /\ top \in Addr \cup {NULL}
    /\ size \in 0..(umod - 1)
    /\ DOMAIN frames \subseteq Addr


(***************************************************************************)
(* Properties.                                                             *)
(***************************************************************************)
\* The events of the last call made through the function pointer or
\* library function name.
EventsOf(name) == SelectSeq(log, LAMBDA e : e.ev = name)

\* The last call was name on the allocated stack and returned.
Returned(name) == op = name /\ arg[1] = STK /\ ~crashed

\* C1: n successful pushes e1..en followed immediately by pops: the pops
\* return en, ..., e1 in that order, and after the j-th pop the stack is
\* what it was before the last j pushes (after the n-th: before the run).
C1_LifoOrder ==
    (op = "dynstackPop" /\ popped # <<>>) =>
        LET n == Len(pushed)
            j == Len(popped)
        IN  /\ j <= n
            /\ \A i \in 1..j : popped[i] = pushed[n + 1 - i]
            /\ ret = RetData(pushed[n + 1 - j])
            /\ P = bases[n + 1 - j]
            /\ Contents(P) = Contents(bases[n + 1 - j])

C1_Witness ==
    /\ op = "dynstackPop"
    /\ Len(pushed) = 2
    /\ Len(popped) = 2
    /\ pushed[1] # pushed[2]
    /\ Len(Contents(P)) = 1

C3_PushThenPop ==
    (op = "dynstackPop" /\ Len(popped) = 1) =>
        LET e == pushed[Len(pushed)]
            before == bases[Len(bases)]
        IN  /\ ret = RetData(e)
            /\ dynstackGetSize(P, STK) = dynstackGetSize(before, STK)
            /\ dynstackIsEmpty(P, STK) = dynstackIsEmpty(before, STK)

C3_Witness ==
    /\ op = "dynstackPop"
    /\ Len(popped) = 1
    /\ pushed[Len(pushed)] = NULL
    /\ ret = RetData(NULL)
    /\ size = 2

\* C4: dynstackPeek leaves the size (and the whole stack) unchanged, and a
\* dynstackPop made immediately after it on the same pointer returns what
\* the peek returned, NULL on an empty or absent stack included.
C4_PeekAgreesWithPop ==
    /\ op = "dynstackPeek" =>
          /\ dynstackGetSize(P, arg[1]) = dynstackGetSize(pre, arg[1])
          /\ P = pre
    /\ (op = "dynstackPop" /\ peeked # <<>> /\ peeked[1] = arg[1]) =>
          ret = RetData(peeked[2])

C4_Witness ==
    /\ Returned("dynstackPop")
    /\ peeked = <<STK, 2>>
    /\ Len(Chain(pre)) = 2
    /\ pre.frames[pre.frames[pre.top].next].data = 1


\* One call of the releaser for each node of the chain st, top first.
ReleaseEach(st) ==
    [i \in 1..Len(Contents(st)) |-> EvDelete(st.deleteData, Contents(st)[i])]

\* One free for each node of the chain st, top first.
FreeEach(st) == [i \in 1..Len(Chain(st)) |-> EvFreeFrame(Chain(st)[i])]

\* The frees of DynFrame nodes the last call made.
FrameFrees == SelectSeq(log, LAMBDA e : e.ev = "free" /\ e.val[1] = "DynFrame")

AllocFailed == \E i \in 1..Len(log) : log[i].ev \in {"malloc", "realloc"} /\ log[i].val[2] = NULL

C8_NewFailsOrIsEmpty ==
    (op = "dynstackNew" /\ ~crashed) =>
        IF arg[1] = NULL \/ arg[2] = NULL \/ AllocFailed
        THEN /\ ret = RetStack(NULL)
             /\ ~alive
             /\ P = pre
             /\ \A i \in 1..Len(log) : log[i] = EvMallocStack(NULL)
             /\ (arg[1] = NULL \/ arg[2] = NULL) => log = <<>>
        ELSE /\ ret = RetStack(STK)
             /\ log = <<EvMallocStack(STK)>>
             /\ alive
             /\ top = NULL
             /\ size = 0
             /\ deleteData = arg[1]
             /\ printData = arg[2]
             /\ Chain(P) = <<>>

C8_Witness ==
    /\ op = "dynstackNew"
    /\ arg = <<2, NULL>>
    /\ ret = RetStack(NULL)
    /\ ~alive

\* C9: dynstackMap on a non-empty allocated stack calls func once for each
\* node, top first, with the node (the DynFrame) as its operand; on an absent
\* or empty stack it does not call func.
C9_MapPassesNode ==
    (op = "dynstackMap" /\ ~crashed) =>
        IF arg[1] = NULL \/ Chain(pre) = <<>>
        THEN EventsOf("func") = <<>>
        ELSE EventsOf("func") =
                 [i \in 1..Len(Chain(pre)) |-> EvFuncFrame(arg[2], Chain(pre)[i])]

\* The texts joined by one line break between consecutive texts.
RECURSIVE JoinLines(_)
JoinLines(texts) ==
    IF Len(texts) = 0 THEN <<>>
    ELSE IF Len(texts) = 1 THEN texts[1]
    ELSE texts[1] \o NL \o JoinLines(Tail(texts))

C12_AllocFailureReported ==
    (op \in {"dynstackTopToString", "dynstackToString"} /\ arg[1] = STK /\ AllocFailed) =>
        /\ ~crashed
        /\ ret # RetUndefined
        /\ ret = RetNullStr
        /\ P = pre

\* C13: dynstackPop and dynstackPeek on an allocated but empty stack return
\* NULL and leave the stack as it was: no top, size 0 (not counted down),
\* nothing freed; also for a stack that held elements before.
C13_EmptyPopPeek ==
    (op \in {"dynstackPop", "dynstackPeek"} /\ arg[1] = STK /\ Chain(pre) = <<>>) =>
        /\ ~crashed
        /\ ret = RetData(NULL)
        /\ log = <<>>
        /\ P = pre
        /\ top = NULL
        /\ size = 0

C13_Witness ==
    /\ Returned("dynstackPop")
    /\ Chain(pre) = <<>>
    /\ kPush = 2
    /\ jPop = 2
    /\ counting

\* What each function returns for an absent stack.
NeutralResult(name) ==
    CASE name = "dynstackGetSize" -> RetUInt(0)
      [] name = "dynstackIsEmpty" -> RetBool(TRUE)
      [] name \in {"dynstackPop", "dynstackPeek"} -> RetData(NULL)
      [] name = "dynstackPush" -> RetBool(FALSE)
      [] name \in {"dynstackTopToString", "dynstackToString"} -> RetNullStr
      [] OTHER -> RetVoid

\* C14: every function called with stack == NULL returns its neutral result
\* (0, true, NULL, false, NULL text, nothing) and has no effect: no state
\* change, no call of the releaser, the renderer or the visitor, no
\* allocation and nothing written to the output.
C14_AbsentStackIsNeutral ==
    (op \notin {"none", "dynstackNew"} /\ arg[1] = NULL) =>
        /\ ~crashed
        /\ ret = NeutralResult(op)
        /\ log = <<>>
        /\ P = pre

C14_Witness ==
    /\ op = "dynstackPrintTop"
    /\ arg[1] = NULL
    /\ alive
    /\ Len(Chain(P)) = 2

\* The chain from top is a simple list: no address twice, ending in NULL.
SimpleChain(st) ==
    LET c == Chain(st)
    IN  /\ Len(c) <= MaxDepth
        /\ \A i, j \in 1..Len(c) : c[i] = c[j] => i = j
        /\ \A i \in 1..Len(c) : c[i] \in DOMAIN st.frames
        /\ c # <<>> => st.frames[c[Len(c)]].next = NULL
        /\ c = <<>> => st.top = NULL

\* C15: in every reachable state of an allocated stack the stored size is
\* the number of nodes reachable from top by the next links, and that chain
\* is finite and acyclic.
C15_CountIsChainLength ==
    alive => /\ size = Len(Chain(P))
             /\ SimpleChain(P)

\* C16: in every reachable state of an allocated stack top is NULL exactly
\* when size is 0, so that dynstackPop returns NULL for emptiness exactly
\* when dynstackIsEmpty was true of the stack it was called on.
C16_TopNullIffSizeZero ==
    /\ alive => ((top = NULL) <=> (size = 0))
    /\ (op = "dynstackPop" /\ arg[1] = STK /\ ~crashed) =>
          ((ret = RetData(NULL) /\ log = <<>>) <=> dynstackIsEmpty(pre, STK))

Held(st, e) == Cardinality({i \in 1..Len(Contents(st)) : Contents(st)[i] = e})

ReadOnlyOps ==
    {"dynstackGetSize", "dynstackIsEmpty", "dynstackPeek", "dynstackTopToString",
     "dynstackPrintTop", "dynstackToString", "dynstackPrint", "dynstackMap"}

C19_ReadOnlyOpsChangeNothing ==
    op \in ReadOnlyOps =>
        /\ top = pre.top
        /\ size = pre.size
        /\ frames = pre.frames
        /\ Chain(P) = Chain(pre)
        /\ Contents(P) = Contents(pre)
        /\ deleteData = pre.deleteData
        /\ printData = pre.printData
        /\ alive = pre.alive
        /\ EventsOf("deleteData") = <<>>
        /\ FrameFrees = <<>>
        /\ \A i \in 1..Len(log) : log[i] # EvFreeStack(STK)

C19_Witness ==
    /\ Returned("dynstackPrint")
    /\ ~AllocFailed
    /\ Contents(pre) = <<2, 1, 2>>
    /\ Contents(P) = <<2, 1, 2>>
    /\ size = 3
    /\ EventsOf("printf") # <<>>

====
